---------------------------- MODULE Spec2Model ----------------------------
(***************************************************************************)
(* A model of regressions/pls_sb.py: the PLS_SB class, its constructor     *)
(* (the fit) and its two prediction methods.                               *)
(*                                                                         *)
(* Numbers are exact: a value is a pair <<n, d>>, the rational n/d in      *)
(* lowest terms with d > 0, or one of the three non-finite values of the   *)
(* floating-point arrays the code works on: <<1, 0>> (inf), <<-1, 0>>      *)
(* (-inf) and <<0, 0>> (nan).  "Equal within a tolerance" is therefore     *)
(* exact equality of finite values.  Vectors are sequences of values and   *)
(* matrices are sequences of rows; the code's 0-based index j is the       *)
(* model's j + 1.                                                          *)
(***************************************************************************)
EXTENDS Integers, Sequences, FiniteSets, TLC

(***************************************************************************)
(* Arithmetic of the array elements.                                       *)
(***************************************************************************)
Abs(n) == IF n < 0 THEN -n ELSE n

Sign(n) == IF n < 0 THEN -1 ELSE IF n = 0 THEN 0 ELSE 1

RECURSIVE GCD(_, _)
GCD(a, b) == IF b = 0 THEN a ELSE GCD(b, a % b)

NaN == <<0, 0>>

PInf == <<1, 0>>

Zero == <<0, 1>>

One == <<1, 1>>

Norm(n, d) ==
    IF d = 0 THEN <<Sign(n), 0>>
    ELSE LET k == GCD(Abs(n), Abs(d))
             s == IF d < 0 THEN -1 ELSE 1
         IN  <<(s * n) \div k, (s * d) \div k>>

FromInt(n) == <<n, 1>>

IsFinite(a) == a[2] # 0

IsNaN(a) == a = NaN

Add(a, b) ==
    IF a[2] = 0 /\ b[2] = 0 THEN (IF a = b THEN a ELSE NaN)
    ELSE Norm(a[1] * b[2] + b[1] * a[2], a[2] * b[2])

Neg(a) == <<-a[1], a[2]>>

Sub(a, b) == Add(a, Neg(b))

Mul(a, b) == Norm(a[1] * b[1], a[2] * b[2])

Recip(a) ==
    IF a[1] = 0 THEN (IF a[2] = 0 THEN NaN ELSE PInf)
    ELSE IF a[1] < 0 THEN <<-a[2], -a[1]>> ELSE <<a[2], a[1]>>

Div(a, b) == Mul(a, Recip(b))

Less(a, b) == IsFinite(a) /\ IsFinite(b) /\ a[1] * b[2] < b[1] * a[2]

Leq(a, b) == a = b \/ Less(a, b)

\* The integer square root of a perfect square (the calibration sets are
\* chosen so that every norm the fit takes is rational).
ISqrt(n) == CHOOSE k \in 0..n : k * k = n

Sqrt(a) ==
    IF a[2] = 0 THEN (IF a = PInf THEN PInf ELSE NaN)
    ELSE IF a[1] < 0 THEN NaN
    ELSE <<ISqrt(a[1]), ISqrt(a[2])>>

(***************************************************************************)
(* Vectors and matrices (numpy's elementwise operators, @, .T, mean, norm  *)
(* and diag).                                                              *)
(***************************************************************************)
RECURSIVE SumTo(_, _)
SumTo(v, n) == IF n = 0 THEN Zero ELSE Add(SumTo(v, n - 1), v[n])

Sum(v) == SumTo(v, Len(v))

Dot(u, v) == Sum([i \in 1..Len(u) |-> Mul(u[i], v[i])])

VecSub(u, v) == [i \in 1..Len(u) |-> Sub(u[i], v[i])]

VecAdd(u, v) == [i \in 1..Len(u) |-> Add(u[i], v[i])]

VecScale(c, v) == [i \in 1..Len(v) |-> Mul(c, v[i])]

NRows(A) == Len(A)

NCols(A) == Len(A[1])

Col(A, j) == [i \in 1..Len(A) |-> A[i][j]]

Transpose(A) == [j \in 1..NCols(A) |-> Col(A, j)]

MatMul(A, B) ==
    [i \in 1..NRows(A) |-> [j \in 1..NCols(B) |-> Dot(A[i], Col(B, j))]]

VecMat(v, B) == [j \in 1..NCols(B) |-> Dot(v, Col(B, j))]

Diagonal(A) == [i \in 1..NRows(A) |-> A[i][i]]

Diag(v) ==
    [i \in 1..Len(v) |-> [j \in 1..Len(v) |-> IF i = j THEN v[i] ELSE Zero]]

Mean0(A) == [j \in 1..NCols(A) |-> Div(Sum(Col(A, j)), FromInt(NRows(A)))]

SubRow(A, v) == [i \in 1..NRows(A) |-> VecSub(A[i], v)]

ColNorms(A) == [j \in 1..NCols(A) |-> Sqrt(Dot(Col(A, j), Col(A, j)))]

DivCols(A, v) ==
    [i \in 1..NRows(A) |-> [j \in 1..NCols(A) |-> Div(A[i][j], v[j])]]

ToRat(A) == [i \in 1..Len(A) |-> [j \in 1..Len(A[i]) |-> FromInt(A[i][j])]]

VecFinite(v) == \A i \in 1..Len(v) : IsFinite(v[i])

MatFinite(A) == \A i \in 1..Len(A) : VecFinite(A[i])

(***************************************************************************)
(* The linear-algebra library the module calls (np, linalg).               *)
(***************************************************************************)
\* The package binds the name linalg either to scipy.linalg or to
\* numpy.linalg; both provide eigh and inv.
LinalgSources == {"scipy", "numpy"}

AxisVectors(p) ==
    {[i \in 1..p |-> IF i = k THEN FromInt(s) ELSE Zero] :
        k \in 1..p, s \in {-1, 1}}

PythagoreanVectors ==
    {<<Norm(a * 3, 5), Norm(b * 4, 5)>> : a \in {-1, 1}, b \in {-1, 1}}
        \cup {<<Norm(a * 4, 5), Norm(b * 3, 5)>> : a \in {-1, 1}, b \in {-1, 1}}

\* The unit vectors an eigenvector of the calibration sets can be.
UnitVectors(p) ==
    AxisVectors(p) \cup (IF p = 2 THEN PythagoreanVectors ELSE {})

\* linalg.eigh(A) for a real symmetric A: eigenvalues in ascending order and
\* an orthonormal eigenvector for each, as the columns of V.  The sign of an
\* eigenvector, and the basis of a repeated eigenvalue, are the solver's
\* choice: every orthonormal eigenbasis is a possible return value.
Eigh(A) ==
    LET p == NRows(A)
        Bases == {f \in [1..p -> UnitVectors(p)] :
                     /\ \A i, j \in 1..p : i < j => Dot(f[i], f[j]) = Zero
                     /\ \A j \in 1..p :
                            VecMat(f[j], A) = VecScale(Dot(f[j], VecMat(f[j], A)), f[j])
                     /\ \A j \in 1..(p - 1) :
                            Leq(Dot(f[j], VecMat(f[j], A)),
                                Dot(f[j + 1], VecMat(f[j + 1], A)))}
    IN  {[ev |-> [j \in 1..p |-> Dot(f[j], VecMat(f[j], A))],
          V  |-> [i \in 1..p |-> [j \in 1..p |-> f[j][i]]]] : f \in Bases}

Minor(A, r, c) ==
    [i \in 1..(NRows(A) - 1) |->
        [j \in 1..(NRows(A) - 1) |->
            A[IF i < r THEN i ELSE i + 1][IF j < c THEN j ELSE j + 1]]]

RECURSIVE Det(_)
Det(A) ==
    IF NRows(A) = 0 THEN One
    ELSE Sum([j \in 1..NRows(A) |->
                Mul(IF j % 2 = 1 THEN A[1][j] ELSE Neg(A[1][j]),
                    Det(Minor(A, 1, j)))])

Adjugate(A) ==
    [i \in 1..NRows(A) |->
        [j \in 1..NRows(A) |->
            LET d == Det(Minor(A, j, i))
            IN  IF (i + j) % 2 = 0 THEN d ELSE Neg(d)]]

\* linalg.inv(A).  A singular A raises LinAlgError under either binding.  An
\* A with a nan or inf entry raises ValueError under scipy (check_finite) and
\* comes back as an array of nan under numpy.
LinalgInv(A, src) ==
    IF ~MatFinite(A)
      THEN IF src = "scipy"
             THEN [error |-> "ValueError", value |-> <<>>]
             ELSE [error |-> "none",
                   value |-> [i \in 1..NRows(A) |-> [j \in 1..NRows(A) |-> NaN]]]
    ELSE IF Det(A) = Zero
      THEN [error |-> "LinAlgError", value |-> <<>>]
    ELSE [error |-> "none",
          value |-> [i \in 1..NRows(A) |->
                       [j \in 1..NRows(A) |-> Div(Adjugate(A)[i][j], Det(A))]]]

(***************************************************************************)
(* PLS_SB.__init__                                                         *)
(***************************************************************************)
NoModel == [components |-> 0]

NoLocals == [reached |-> "validation"]

Min(a, b) == IF a < b THEN a ELSE b

\* X.shape[0] != Y.shape[1]: the rows of X against the columns of Y.
RowsMatchTransposed(Xm, Ym) == ~(NRows(Xm) # NCols(Ym))

\* X.shape[0] != Y.shape[0]
RowsMatch(Xm, Ym) == ~(NRows(Xm) # NRows(Ym))

MaxRank(Xm) == Min(NRows(Xm), NCols(Xm))

\* g < 1 or g >= self.max_rank
ComponentsPossibleStrict(g, Xm) == ~(g < 1 \/ g >= MaxRank(Xm))

\* g < 1 or g > self.max_rank
ComponentsPossible(g, Xm) == ~(g < 1 \/ g > MaxRank(Xm))

\* The 0-based indices a[:stop:-1] selects from a sequence of length len
\* (Python's slice adjustment for a negative step and an omitted start).
SliceBackTo(len, stop) ==
    LET start == len - 1
        s1    == IF stop < 0 THEN stop + len ELSE stop
        s2    == IF s1 < 0 THEN -1 ELSE IF s1 >= len THEN len - 1 ELSE s1
        n     == IF s2 < start THEN start - s2 ELSE 0
    IN  [k \in 1..n |-> start - (k - 1)]

\* W[:, -g:]: the last g columns, left in the solver's (ascending) order.
SelectAscending(V, g) ==
    [i \in 1..NRows(V) |-> [j \in 1..g |-> V[i][NCols(V) - g + j]]]

\* W[:, :-g-1:-1]
SelectColumns(V, g) ==
    LET idx == SliceBackTo(NCols(V), -g - 1)
    IN  [i \in 1..NRows(V) |-> [j \in 1..Len(idx) |-> V[i][idx[j] + 1]]]

Raise(kind, steps, locals) ==
    [error |-> kind, model |-> NoModel, trace |-> steps, locals |-> locals]

\* The statements of the constructor after the two parameter checks, for one
\* return value e of the eigensolver.
Construct(Xm, Ym, g, src, e) ==
    LET X_offset == Mean0(ToRat(Xm))
        Xc       == SubRow(ToRat(Xm), X_offset)
        Y_offset == Mean0(ToRat(Ym))
        Yc       == SubRow(ToRat(Ym), Y_offset)
        W        == SelectColumns(e.V, g)
        T        == MatMul(Xc, W)
        Q0       == MatMul(Transpose(Yc), T)
        Q        == DivCols(Q0, ColNorms(Q0))
        U        == MatMul(Yc, Q)
        t_dot_t  == Diagonal(MatMul(Transpose(T), T))
        t_dot_u  == Diagonal(MatMul(Transpose(T), U))
        C        == Diag([j \in 1..Len(t_dot_t) |-> Div(t_dot_u[j], t_dot_t[j])])
        P        == DivCols(MatMul(Transpose(Xc), T), t_dot_t)
        PtW      == MatMul(Transpose(P), W)
        inv      == LinalgInv(PtW, src)
        B        == MatMul(MatMul(MatMul(W, inv.value), C), Transpose(Q))
        steps    == <<"centre", "cross", "eigh", "scores", "inv">>
        locals   == [reached |-> "inv", ev |-> e.ev, V |-> e.V,
                     t_dot_t |-> t_dot_t, PtW |-> PtW]
    IN  IF inv.error # "none" THEN Raise(inv.error, steps, locals)
        ELSE [error  |-> "none",
              trace  |-> steps,
              locals |-> locals,
              model  |-> [max_rank     |-> MaxRank(Xm),
                          data_samples |-> NRows(Xm),
                          X_variables  |-> NCols(Xm),
                          Y_variables  |-> NCols(Ym),
                          components   |-> g,
                          X_offset     |-> X_offset,
                          Y_offset     |-> Y_offset,
                          W |-> W, T |-> T, Q |-> Q, U |-> U,
                          C |-> C, P |-> P, B |-> B]]

\* Every way PLS_SB(X, Y, g) can end.
FitOutcomes(Xm, Ym, g, src) ==
    IF ~RowsMatch(Xm, Ym)
      THEN {Raise("ParameterError", <<>>, NoLocals)}
    ELSE IF ~ComponentsPossible(g, Xm)
      THEN {Raise("ParameterError", <<>>, NoLocals)}
    ELSE IF NRows(Xm) # NRows(Ym)
      THEN {Raise("ValueError", <<"centre", "cross">>, [reached |-> "cross"])}
    ELSE LET XtY == MatMul(Transpose(SubRow(ToRat(Xm), Mean0(ToRat(Xm)))),
                           SubRow(ToRat(Ym), Mean0(ToRat(Ym))))
         IN  {Construct(Xm, Ym, g, src, e) :
                 e \in Eigh(MatMul(XtY, Transpose(XtY)))}

(***************************************************************************)
(* PLS_SB.prediction and PLS_SB.prediction_iterative                       *)
(***************************************************************************)
\* An input Z: its shape, and its rows (a 1-D Z has the one row).
Vector(v) == [shape |-> <<Len(v)>>, rows |-> <<v>>]

Batch(n, w, rows) == [shape |-> <<n, w>>, rows |-> rows]

\* Z.shape[...] > self.X_variables
WidthMatchesUpTo(Z, mdl) == ~(Z.shape[Len(Z.shape)] > mdl.X_variables)

\* Z.shape[0] != self.X_variables (1-D), Z.shape[1] != self.X_variables (2-D)
WidthMatches(Z, mdl) == ~(Z.shape[Len(Z.shape)] # mdl.X_variables)

\* self.Y_offset + (Z - self.X_offset).T @ self.B
DirectRow(mdl, z) ==
    VecAdd(mdl.Y_offset, VecMat(VecSub(ToRat(<<z>>)[1], mdl.X_offset), mdl.B))

\* range(1, self.components), as the model's 1-based indices.
ComponentRangeFromOne(mdl) == [j \in 1..(mdl.components - 1) |-> j + 1]

\* range(0, self.components), as the model's 1-based indices.
ComponentRange(mdl) == [j \in 1..mdl.components |-> j]

\* The loop over the components: t[j] = x_j @ W[:, j], then
\* x_j = x_j - t[j] * P[:, j].
RECURSIVE ScoreLoop(_, _, _, _)
ScoreLoop(mdl, x_j, t, js) ==
    IF js = <<>> THEN t
    ELSE LET j  == Head(js)
             tj == Dot(x_j, Col(mdl.W, j))
         IN  ScoreLoop(mdl, VecSub(x_j, VecScale(tj, Col(mdl.P, j))),
                       [t EXCEPT ![j] = tj], Tail(js))

\* The scores of one input row, written into the buffer t.
Scores(mdl, z, t) ==
    ScoreLoop(mdl, VecSub(ToRat(<<z>>)[1], mdl.X_offset), t, ComponentRange(mdl))

\* self.Y_offset + t @ self.C @ self.Q.T
Combine(mdl, t) ==
    VecAdd(mdl.Y_offset, VecMat(VecMat(t, mdl.C), Transpose(mdl.Q)))

\* The index of Z's row that the k-th pass of the batch loop reads, and of
\* the row of result it writes (k counts from 0, the indices from 1).
BatchRow(k) == k + 1

\* What a prediction call leaves in the fields of self: the methods assign to
\* none.  (The aliased variant is result = self.Y_offset; result += ...)
SelfAfterAliased(mdl, y) == [mdl EXCEPT !.Y_offset = y]

SelfAfter(mdl, y) == mdl

(***************************************************************************)
(* The calibration sets, the inputs and the bounds of the model.           *)
(***************************************************************************)
MaxG == 4

MaxBatch == 2

MaxZ == 1

\* What np.empty can hold before it is written.
EmptyValues == {Zero, NaN}

CalibrationSets ==
    { \* oblique scores: the columns of the centred X are not orthogonal
      [X |-> <<<<2, 1>>, <<1, 2>>, <<0, 0>>>>, Y |-> <<<<3, 0>>, <<0, 6>>, <<0, 0>>>>],
      \* orthogonal scores
      [X |-> <<<<2, 3>>, <<0, 3>>, <<1, 0>>>>, Y |-> <<<<2, 6>>, <<0, 6>>, <<1, 0>>>>],
      \* eigenvectors (3, 4)/5 and (4, -3)/5
      [X |-> <<<<2, 1>>, <<1, 2>>, <<0, 0>>>>, Y |-> <<<<9, 42>>, <<12, 0>>, <<0, 18>>>>],
      \* one X variable
      [X |-> <<<<0>>, <<1>>, <<3>>>>, Y |-> <<<<1>>, <<2>>, <<0>>>>],
      [X |-> <<<<0>>, <<1>>, <<2>>>>, Y |-> <<<<0, 0>>, <<0, 0>>, <<3, 4>>>>],
      \* a constant Y
      [X |-> <<<<0>>, <<1>>, <<3>>>>, Y |-> <<<<1>>, <<1>>, <<1>>>>],
      [X |-> <<<<0, 0>>, <<1, 1>>>>, Y |-> <<<<0>>, <<0>>>>],
      \* fewer Y variables than X variables
      [X |-> <<<<2, 1>>, <<1, 2>>, <<0, 0>>>>, Y |-> <<<<3>>, <<0>>, <<0>>>>],
      \* as many samples as X variables
      [X |-> <<<<0, 0>>, <<1, 0>>>>, Y |-> <<<<0>>, <<1>>>>],
      \* three X variables, two Y variables
      [X |-> <<<<2, 3, 4>>, <<0, 3, 4>>, <<1, 0, 4>>, <<1, 2, 0>>>>,
       Y |-> <<<<2, 3>>, <<0, 3>>, <<1, 0>>, <<1, 2>>>>],
      \* X and Y of different row counts
      [X |-> <<<<2, 1>>, <<1, 2>>, <<0, 0>>>>, Y |-> <<<<0>>, <<1>>>>],
      [X |-> <<<<0>>, <<1>>>>, Y |-> <<<<1, 0>>, <<2, 0>>, <<0, 0>>>>] }

\* The sets two calls in flight are explored on: one whose models are finite,
\* one whose models hold nan.
ConcurrentSets ==
    { [X |-> <<<<2, 1>>, <<1, 2>>, <<0, 0>>>>, Y |-> <<<<3, 0>>, <<0, 6>>, <<0, 0>>>>],
      [X |-> <<<<0>>, <<1>>, <<3>>>>, Y |-> <<<<1>>, <<1>>, <<1>>>>] }

\* The input rows of width w with entries up to zmax: the origin and the
\* multiples of the unit vectors (for zmax >= 1 they span the inputs affinely,
\* and both methods are affine in the input).
ZVectors(w, zmax) ==
    {[i \in 1..w |-> 0]}
        \cup {[i \in 1..w |-> IF i = k THEN c ELSE 0] : k \in 1..w, c \in 1..zmax}

\* The rows offered for a width: every ZVector of the model's width, the zero
\* row of a wrong one.
RowPool(w, mdl, zmax) ==
    IF w = mdl.X_variables THEN ZVectors(w, zmax) ELSE {[i \in 1..w |-> 0]}

Widths(mdl) ==
    {w \in {mdl.X_variables - 1, mdl.X_variables, mdl.X_variables + 1} : w >= 1}

Inputs1D(mdl, zmax) ==
    {Vector(v) : v \in UNION {RowPool(w, mdl, zmax) : w \in Widths(mdl)}}

Inputs2D(mdl, zmax) ==
    UNION {UNION {{Batch(n, w, rows) : rows \in [1..n -> RowPool(w, mdl, zmax)]} :
                     n \in 0..MaxBatch} : w \in Widths(mdl)}

(***************************************************************************)
(* The state.                                                              *)
(***************************************************************************)
VARIABLES
    X, Y, g,    \* the arguments of the constructor call
    linalg,     \* what the package bound linalg to
    phase,      \* "new", "fitted" (the constructor returned), "failed" (it raised)
    error,      \* what the constructor raised
    model,      \* the fields of the object the constructor returned
    built,      \* the fields as they were when the constructor returned
    trace,      \* the numeric steps the constructor ran, in order
    locals,     \* the constructor's local values when it ended
    callers,    \* the callers that may call the prediction methods
    rowMax,     \* the largest entry of the input rows the callers pass
    calls       \* per caller: the prediction call it has made

vars == <<X, Y, g, linalg, phase, error, model, built, trace, locals, callers, rowMax,
          calls>>

Idle == [status |-> "idle"]

InitWith(sets, who, zmax) ==
    /\ \E d \in sets : X = d.X /\ Y = d.Y
    /\ g \in 0..MaxG
    /\ linalg \in LinalgSources
    /\ phase = "new"
    /\ error = "none"
    /\ model = NoModel
    /\ built = NoModel
    /\ trace = <<>>
    /\ locals = NoLocals
    /\ callers = who
    /\ rowMax = zmax
    /\ calls = [c \in who |-> Idle]

\* One caller, every calibration set, every input row.
Init == InitWith(CalibrationSets, {"a"}, MaxZ)

\* Two callers whose calls interleave; their input rows are the origin.
InitConcurrent == InitWith(ConcurrentSets, {"a", "b"}, 0)

\* PLS_SB(X, Y, g)
Fit ==
    /\ phase = "new"
    /\ \E out \in FitOutcomes(X, Y, g, linalg) :
          /\ phase' = IF out.error = "none" THEN "fitted" ELSE "failed"
          /\ error' = out.error
          /\ model' = out.model
          /\ built' = out.model
          /\ trace' = out.trace
          /\ locals' = out.locals
    /\ UNCHANGED <<X, Y, g, linalg, callers, rowMax, calls>>

Raised(method, Z) ==
    [status |-> "raised", error |-> "ParameterError", method |-> method, Z |-> Z]

Returned(method, Z, result, t) ==
    [status |-> "returned", method |-> method, Z |-> Z, result |-> result, t |-> t]

Running(method, Z, k, result, t) ==
    [status |-> "running", method |-> method, Z |-> Z, k |-> k,
     result |-> result, t |-> t]

fitFrame ==
    <<X, Y, g, linalg, phase, error, built, trace, locals, callers, rowMax>>

\* prediction(Z), Z one-dimensional
Prediction1D(c) ==
    /\ phase = "fitted" /\ calls[c].status = "idle"
    /\ \E Z \in Inputs1D(model, rowMax) :
          IF ~WidthMatches(Z, model)
            THEN /\ calls' = [calls EXCEPT ![c] = Raised("prediction", Z)]
                 /\ model' = model
            ELSE LET y == DirectRow(model, Z.rows[1])
                 IN  /\ calls' = [calls EXCEPT ![c] = Returned("prediction", Z, y, <<>>)]
                     /\ model' = SelfAfter(model, y)
    /\ UNCHANGED fitFrame

\* prediction_iterative(Z), Z one-dimensional
Iterative1D(c) ==
    /\ phase = "fitted" /\ calls[c].status = "idle"
    /\ \E Z \in Inputs1D(model, rowMax) :
          IF ~WidthMatches(Z, model)
            THEN /\ calls' = [calls EXCEPT ![c] = Raised("prediction_iterative", Z)]
                 /\ model' = model
            ELSE \E junk \in EmptyValues :
                   LET t == Scores(model, Z.rows[1], [j \in 1..model.components |-> junk])
                       y == Combine(model, t)
                   IN  /\ calls' = [calls EXCEPT ![c] =
                                       Returned("prediction_iterative", Z, y, t)]
                       /\ model' = SelfAfter(model, y)
    /\ UNCHANGED fitFrame

\* Either method with a two-dimensional Z, up to the loop over the rows: the
\* shape check, then result = np.empty(...) (and t = np.empty(...)).
BatchStart(c, method) ==
    /\ phase = "fitted" /\ calls[c].status = "idle"
    /\ \E Z \in Inputs2D(model, rowMax) :
          IF ~WidthMatches(Z, model)
            THEN calls' = [calls EXCEPT ![c] = Raised(method, Z)]
            ELSE \E junk \in EmptyValues :
                   calls' = [calls EXCEPT ![c] =
                       Running(method, Z, 0,
                               [i \in 1..Z.shape[1] |->
                                   [j \in 1..model.Y_variables |-> junk]],
                               IF method = "prediction" THEN <<>>
                               ELSE [j \in 1..model.components |-> junk])]
    /\ UNCHANGED <<model>>
    /\ UNCHANGED fitFrame

PredictionBatchStart(c) == BatchStart(c, "prediction")

IterativeBatchStart(c) == BatchStart(c, "prediction_iterative")

\* One pass of prediction's loop over the rows of Z.
PredictionBatchStep(c) ==
    /\ phase = "fitted" /\ calls[c].status = "running"
    /\ calls[c].method = "prediction"
    /\ calls[c].k < calls[c].Z.shape[1]
    /\ LET y == DirectRow(model, calls[c].Z.rows[BatchRow(calls[c].k)])
       IN  /\ calls' = [calls EXCEPT ![c].result[BatchRow(calls[c].k)] = y,
                                     ![c].k = @ + 1]
           /\ model' = SelfAfter(model, y)
    /\ UNCHANGED fitFrame

\* One pass of prediction_iterative's loop over the rows of Z.
IterativeBatchStep(c) ==
    /\ phase = "fitted" /\ calls[c].status = "running"
    /\ calls[c].method = "prediction_iterative"
    /\ calls[c].k < calls[c].Z.shape[1]
    /\ LET t == Scores(model, calls[c].Z.rows[BatchRow(calls[c].k)], calls[c].t)
           y == Combine(model, t)
       IN  /\ calls' = [calls EXCEPT ![c].result[BatchRow(calls[c].k)] = y,
                                     ![c].t = t,
                                     ![c].k = @ + 1]
           /\ model' = SelfAfter(model, y)
    /\ UNCHANGED fitFrame

\* return result, after the loop
BatchReturn(c) ==
    /\ phase = "fitted" /\ calls[c].status = "running"
    /\ calls[c].k = calls[c].Z.shape[1]
    /\ calls' = [calls EXCEPT ![c] =
                    Returned(calls[c].method, calls[c].Z, calls[c].result, calls[c].t)]
    /\ UNCHANGED <<model>>
    /\ UNCHANGED fitFrame

Next ==
    \/ Fit
    \/ \E c \in callers : Prediction1D(c)
    \/ \E c \in callers : Iterative1D(c)
    \/ \E c \in callers : PredictionBatchStart(c)
    \/ \E c \in callers : IterativeBatchStart(c)
    \/ \E c \in callers : PredictionBatchStep(c)
    \/ \E c \in callers : IterativeBatchStep(c)
    \/ \E c \in callers : BatchReturn(c)

Spec == Init /\ [][Next]_vars

SpecConcurrent == InitConcurrent /\ [][Next]_vars

(***************************************************************************)
(* The values the claims compare with.                                     *)
(***************************************************************************)
IsBatch(Z) == Len(Z.shape) = 2

\* What prediction(Z) returns for a Z of the model's width.
DirectValue(mdl, Z) ==
    IF IsBatch(Z) THEN [i \in 1..Z.shape[1] |-> DirectRow(mdl, Z.rows[i])]
    ELSE DirectRow(mdl, Z.rows[1])

\* What prediction_iterative returns for the one row z, its buffer t holding
\* junk when the call starts.
IterativeSingle(mdl, z, junk) ==
    Combine(mdl, Scores(mdl, z, [j \in 1..mdl.components |-> junk]))

\* What prediction_iterative(Z) returns for a Z of the model's width.
IterativeValue(mdl, Z) ==
    IF IsBatch(Z) THEN [i \in 1..Z.shape[1] |-> IterativeSingle(mdl, Z.rows[i], Zero)]
    ELSE IterativeSingle(mdl, Z.rows[1], Zero)

\* Two output rows agree within the tolerance: no entry is nan and the
\* entries are equal.
RowsAgree(u, v) ==
    /\ Len(u) = Len(v)
    /\ \A i \in 1..Len(u) : ~IsNaN(u[i]) /\ u[i] = v[i]

ValuesAgree(Z, a, b) ==
    IF IsBatch(Z)
      THEN Len(a) = Len(b) /\ \A i \in 1..Len(a) : RowsAgree(a[i], b[i])
      ELSE RowsAgree(a, b)

ModelFinite(mdl) ==
    /\ MatFinite(mdl.W) /\ MatFinite(mdl.T) /\ MatFinite(mdl.Q)
    /\ MatFinite(mdl.U) /\ MatFinite(mdl.C) /\ MatFinite(mdl.P)
    /\ MatFinite(mdl.B)

ReturnedCalls == {c \in callers : calls[c].status = "returned"}

\* P^T W is unit upper triangular: P_j . W_j = 1, and P_i . W_j = 0 for i > j.
UnitUpperTriangular(mdl) ==
    \A i, j \in 1..mdl.components :
        /\ i = j => Dot(Col(mdl.P, i), Col(mdl.W, j)) = One
        /\ i > j => Dot(Col(mdl.P, i), Col(mdl.W, j)) = Zero

\* The two methods agree on every input row.
MethodsAgreeEverywhere(mdl) ==
    \A z \in ZVectors(mdl.X_variables, MaxZ) :
        RowsAgree(IterativeSingle(mdl, z, Zero), DirectRow(mdl, z))

\* The constructor met a numeric degeneracy: a component with t.t = 0, or a
\* singular P^T W.
Degenerate(l) ==
    /\ l.reached = "inv"
    /\ \/ \E j \in 1..Len(l.t_dot_t) : l.t_dot_t[j] = Zero
       \/ MatFinite(l.PtW) /\ Det(l.PtW) = Zero

(***************************************************************************)
(* The claims.                                                             *)
(***************************************************************************)
\* C1: on every fitted model, and even on those alone whose fields are all
\* finite, a returned call of either method holds the value the other method
\* returns for the same Z, for a single row and for a batch.
C1_PredictionsAgree ==
    \A c \in ReturnedCalls :
        (phase = "fitted" /\ ModelFinite(model)) =>
            ValuesAgree(calls[c].Z, calls[c].result,
                        IF calls[c].method = "prediction"
                          THEN IterativeValue(model, calls[c].Z)
                          ELSE DirectValue(model, calls[c].Z))

\* C2: when X and Y differ in their row counts the constructor, whatever g
\* is, raises ParameterError having run no numeric step, and returns no model.
C2_RowMismatchFailsFirst ==
    (NRows(X) # NRows(Y) /\ phase # "new") =>
        /\ phase = "failed"
        /\ error = "ParameterError"
        /\ trace = <<>>
        /\ model = NoModel

C2_Witness ==
    /\ NRows(X) # NRows(Y)
    /\ g = 1
    /\ phase = "failed"

\* C3, as claimed: with equal row counts, g < 1 and g > max_rank fail, and
\* g = max_rank succeeds with a model of exactly max_rank components,
\* whatever the shape of Y.
C3_ComponentBounds ==
    (NRows(X) = NRows(Y) /\ phase # "new") =>
        /\ (g < 1 \/ g > MaxRank(X)) => phase = "failed"
        /\ g = MaxRank(X) => (phase = "fitted" /\ model.components = MaxRank(X))

\* C3, amended: with equal row counts, g < 1 and g > max_rank fail with
\* ParameterError; g = max_rank passes the parameter checks, a model it
\* returns has exactly max_rank components, and it fails only when the fit
\* met a numeric degeneracy; whatever the shape of Y.
C3_ComponentBoundsUnlessDegenerate ==
    (NRows(X) = NRows(Y) /\ phase # "new") =>
        /\ (g < 1 \/ g > MaxRank(X)) =>
              (phase = "failed" /\ error = "ParameterError" /\ trace = <<>>)
        /\ g = MaxRank(X) =>
              /\ error # "ParameterError"
              /\ phase = "fitted" => model.components = MaxRank(X)
              /\ phase = "failed" => Degenerate(locals)

C3_Witness ==
    /\ phase = "fitted"
    /\ g = MaxRank(X)
    /\ NCols(Y) < g
    /\ model.components = g

\* C4: a call of either method whose Z has a width other than p raises
\* ParameterError, and holds no result and no pass of the loop; a call whose Z
\* has the width p does not raise.
C4_WidthChecked ==
    \A c \in callers :
        calls[c].status # "idle" =>
            LET Z     == calls[c].Z
                wrong == Z.shape[Len(Z.shape)] # model.X_variables
            IN  /\ wrong => /\ calls[c].status = "raised"
                            /\ calls[c].error = "ParameterError"
                            /\ DOMAIN calls[c] \cap {"result", "k", "t"} = {}
                /\ calls[c].status = "raised" => wrong

C4_Witness ==
    \E c \in callers :
        /\ calls[c].status = "raised"
        /\ calls[c].method = "prediction_iterative"
        /\ IsBatch(calls[c].Z)
        /\ calls[c].Z.shape[1] = MaxBatch

\* C5: row i of the result of a batch call is the result of the same method
\* called with the one row Z[i], in the order of the input, whatever the
\* buffers held when they were allocated.
C5_BatchRowsMatchSingle ==
    \A c \in ReturnedCalls :
        IsBatch(calls[c].Z) =>
            /\ Len(calls[c].result) = calls[c].Z.shape[1]
            /\ \A i \in 1..calls[c].Z.shape[1] :
                  IF calls[c].method = "prediction"
                    THEN calls[c].result[i] = DirectRow(model, calls[c].Z.rows[i])
                    ELSE \A junk \in EmptyValues :
                            calls[c].result[i]
                                = IterativeSingle(model, calls[c].Z.rows[i], junk)

C5_Witness ==
    \E c \in ReturnedCalls :
        /\ calls[c].method = "prediction_iterative"
        /\ IsBatch(calls[c].Z)
        /\ calls[c].Z.shape[1] = 2
        /\ calls[c].Z.rows[1] # calls[c].Z.rows[2]
        /\ calls[c].result[1] # calls[c].result[2]
        /\ model.components = 2
        /\ ModelFinite(model)

\* C6: after a fit that returned a model, every one of the g columns of Q has
\* Euclidean norm 1 (stated here for the fits alone that met no zero t.t and
\* no singular P^T W).
C6_QColumnsUnit ==
    (phase = "fitted" /\ ~Degenerate(locals)) =>
        /\ NCols(model.Q) = g
        /\ \A j \in 1..g : Dot(Col(model.Q, j), Col(model.Q, j)) = One

\* C7: W has g columns, and column j (from 0) of W is column p-1-j of the
\* solver's eigenvector matrix, whose eigenvalues ascend: the g largest, in
\* descending order, each once.
C7_WeightsAreTopEigenvectors ==
    phase = "fitted" =>
        LET p == NCols(X)
        IN  /\ NRows(model.W) = p
            /\ NCols(model.W) = g
            /\ \A j \in 0..(g - 1) :
                  Col(model.W, j + 1) = Col(locals.V, (p - 1 - j) + 1)
            /\ \A j \in 0..(g - 2) :
                  Leq(locals.ev[(p - 1 - (j + 1)) + 1], locals.ev[(p - 1 - j) + 1])

C7_Witness ==
    /\ phase = "fitted"
    /\ NCols(X) = 3
    /\ g = 3
    /\ Less(locals.ev[1], locals.ev[2])
    /\ Less(locals.ev[2], locals.ev[3])

\* C8: the fields of the fitted model stay what the constructor made them,
\* whatever calls start, run, raise or return, and a call returns what it
\* returns when it runs alone on that model.
C8_ModelReadOnly ==
    phase = "fitted" =>
        /\ model = built
        /\ \A c \in ReturnedCalls :
              calls[c].result
                  = IF calls[c].method = "prediction"
                      THEN DirectValue(built, calls[c].Z)
                      ELSE IterativeValue(built, calls[c].Z)

C8_Witness ==
    /\ calls["a"].status = "returned"
    /\ IsBatch(calls["a"].Z)
    /\ calls["a"].Z.shape[1] = 2
    /\ calls["b"].status = "running"
    /\ calls["b"].k = 1
    /\ calls["b"].Z.shape[1] = 2
    /\ calls["a"].method # calls["b"].method

\* C9: a constructor that met a numeric degeneracy raised, raised something
\* other than ParameterError, and returned no model.
C9_DegeneracyRaises ==
    (phase # "new" /\ Degenerate(locals)) =>
        /\ phase = "failed"
        /\ error \notin {"none", "ParameterError"}
        /\ model = NoModel

\* The score formula of C10: t_j = (z - X_offset) . W_j - sum over i < j of
\* t_i (P_i . W_j), for the scores a call of prediction_iterative holds when
\* it returns (those of its last row).
ScoreFormula(mdl, z, t) ==
    \A j \in 1..mdl.components :
        t[j] = Sub(Dot(VecSub(ToRat(<<z>>)[1], mdl.X_offset), Col(mdl.W, j)),
                   Sum([i \in 1..(j - 1) |->
                           Mul(t[i], Dot(Col(mdl.P, i), Col(mdl.W, j)))]))

ScoresFollowFormula ==
    \A c \in ReturnedCalls :
        (calls[c].method = "prediction_iterative" /\ calls[c].Z.shape[1] >= 1) =>
            ScoreFormula(model, calls[c].Z.rows[Len(calls[c].Z.rows)], calls[c].t)

\* C10: the scores follow the formula, and prediction_iterative agrees with
\* prediction on every input exactly when P^T W is unit upper triangular.
C10_IterativeAgreesIffTriangular ==
    phase = "fitted" =>
        /\ ScoresFollowFormula
        /\ MethodsAgreeEverywhere(model) <=> UnitUpperTriangular(model)

\* C10 on the models whose fields are all finite (those C6's nan columns of Q
\* do not reach).
C10_OnFiniteModels ==
    (phase = "fitted" /\ ModelFinite(model)) =>
        /\ ScoresFollowFormula
        /\ MethodsAgreeEverywhere(model) <=> UnitUpperTriangular(model)

C10_FiniteWitness ==
    /\ phase = "fitted" /\ ModelFinite(model) /\ g = 2
    /\ UnitUpperTriangular(model)
    /\ \E c \in ReturnedCalls : calls[c].method = "prediction_iterative"
=============================================================================
